---- MODULE Spec2Model ----
(***************************************************************************)
(* The resilience layer of the Local Guide: the circuit breaker and the    *)
(* retry decorator of utils/base_service.py, the provider adapters built   *)
(* on BaseService._make_request, and the orchestrator's get_recommendation.*)
(***************************************************************************)
EXTENDS Integers, Sequences, FiniteSets, TLC

VARIABLES
    service,          \* which object this instance is: "none" (a bare CircuitBreaker), an adapter or "guide"
    circuit_breaker,  \* the CircuitBreaker object: its five fields (for the guide, one per service)
    now,              \* time.time(), in seconds
    call,             \* what the last operation did (an observation, not program state)
    streak,           \* consecutive failures of the wrapped function the callers have seen
    online,           \* the providers of a LocalGuideSystem that answer at present
    users,            \* the users collection of a UserProfileManager: user id -> the fields followed
    threads           \* the threads inside CircuitBreaker.call of a shared breaker: where each is

vars == <<service, circuit_breaker, now, call, streak, online, users, threads>>

(***************************************************************************)
(* Bounds of the model.                                                    *)
(***************************************************************************)
MaxTime == 130        \* the clock stops here
TickStep == 20        \* the clock advances in steps of this many seconds
WaitStep == 30        \* the same for the callers of an adapter
MaxThreshold == 2     \* a bare breaker is built with failure_threshold in 1..MaxThreshold, or the default

(***************************************************************************)
(* Program constants.                                                      *)
(***************************************************************************)
DefaultFailureThreshold == 5
DefaultRecoveryTimeout == 60
DefaultMaxRetries == 3
None == -1            \* last_failure_time = None

CLOSED == "closed"
OPEN == "open"
HALF_OPEN == "half_open"

Adapters == {"cultural", "search", "maps"}

(***************************************************************************)
(* CircuitBreaker                                                          *)
(***************************************************************************)
CircuitBreaker(threshold, timeout) ==
    [ failure_threshold |-> threshold,
      recovery_timeout  |-> timeout,
      failure_count     |-> 0,
      last_failure_time |-> None,
      state             |-> CLOSED ]

\* `self.last_failure_time and ...': None and 0.0 are both falsy.
\* variant: the recovery timeout is not consulted
_should_attempt_reset_no_timeout(cb, t) ==
    /\ cb.last_failure_time # None
    /\ cb.last_failure_time # 0

\* variant: strictly more than the recovery timeout must have elapsed
_should_attempt_reset_strict(cb, t) ==
    /\ cb.last_failure_time # None
    /\ cb.last_failure_time # 0
    /\ t - cb.last_failure_time > cb.recovery_timeout

_should_attempt_reset(cb, t) ==
    /\ cb.last_failure_time # None
    /\ cb.last_failure_time # 0
    /\ t - cb.last_failure_time >= cb.recovery_timeout

\* variant: the state is closed but the count is kept
_on_success_keeps_count(cb) == [cb EXCEPT !.state = CLOSED]

_on_success(cb) ==
    [cb EXCEPT !.failure_count = 0, !.state = CLOSED]

\* variant: the breaker opens only above the threshold
_on_failure_above_threshold(cb, t) ==
    LET counted == [cb EXCEPT !.failure_count = @ + 1, !.last_failure_time = t]
    IN  IF counted.failure_count > counted.failure_threshold
        THEN [counted EXCEPT !.state = OPEN]
        ELSE counted

\* variant: a failure of the probe does not restart the recovery timeout
_on_failure_stale_time(cb, t) ==
    LET counted == [cb EXCEPT !.failure_count = @ + 1,
                              !.last_failure_time = IF cb.state = HALF_OPEN THEN @ ELSE t]
    IN  IF counted.failure_count >= counted.failure_threshold
        THEN [counted EXCEPT !.state = OPEN]
        ELSE counted

_on_failure(cb, t) ==
    LET counted == [cb EXCEPT !.failure_count = @ + 1, !.last_failure_time = t]
    IN  IF counted.failure_count >= counted.failure_threshold
        THEN [counted EXCEPT !.state = OPEN]
        ELSE counted

(***************************************************************************)
(* retry_with_backoff.  The wrapped function is given by what each of its  *)
(* invocations does: outs[i] = 0 when the i-th invocation raises (the      *)
(* exception is numbered i), and outs[i] = v > 0 when it returns value v.  *)
(* Delays are in milliseconds.                                             *)
(***************************************************************************)
RECURSIVE Pow2(_)
Pow2(k) == IF k = 0 THEN 1 ELSE 2 * Pow2(k - 1)

Delay(base_delay, attempt) == base_delay * Pow2(attempt)

\* variant: the loop runs over range(max_retries), one attempt short
RECURSIVE retry_with_backoff_one_short(_, _, _, _, _)
retry_with_backoff_one_short(max_retries, base_delay, outs, attempt, sleeps) ==
    IF attempt >= max_retries
    THEN [ok |-> FALSE, value |-> 0, exc |-> attempt, attempts |-> attempt, sleeps |-> sleeps]
    ELSE IF outs[attempt + 1] # 0
    THEN [ok |-> TRUE, value |-> outs[attempt + 1], exc |-> 0,
          attempts |-> attempt + 1, sleeps |-> sleeps]
    ELSE IF attempt = max_retries - 1
    THEN [ok |-> FALSE, value |-> 0, exc |-> attempt + 1,
          attempts |-> attempt + 1, sleeps |-> sleeps]
    ELSE retry_with_backoff_one_short(max_retries, base_delay, outs, attempt + 1,
                                      Append(sleeps, Delay(base_delay, attempt)))

RECURSIVE retry_with_backoff(_, _, _, _, _)
retry_with_backoff(max_retries, base_delay, outs, attempt, sleeps) ==
    IF attempt > max_retries
    THEN [ok |-> FALSE, value |-> 0, exc |-> attempt, attempts |-> attempt, sleeps |-> sleeps]
    ELSE IF outs[attempt + 1] # 0
    THEN [ok |-> TRUE, value |-> outs[attempt + 1], exc |-> 0,
          attempts |-> attempt + 1, sleeps |-> sleeps]
    ELSE IF attempt = max_retries
    THEN [ok |-> FALSE, value |-> 0, exc |-> attempt + 1,
          attempts |-> attempt + 1, sleeps |-> sleeps]
    ELSE retry_with_backoff(max_retries, base_delay, outs, attempt + 1,
                            Append(sleeps, Delay(base_delay, attempt)))

Unavailable == -1     \* Exception("Circuit breaker is OPEN - service unavailable")

(***************************************************************************)
(* CircuitBreaker.call(func): func is a retry-decorated function given by  *)
(* outs.  The call starts at time t and the wrapped function ends at time  *)
(* t + d.  The result records what the call did.                           *)
(***************************************************************************)
\* the try block of call(): r is what the decorated function did
Attempted(cb, t, d, max_retries, outs, r) ==
    LET entered == IF cb.state = OPEN THEN [cb EXCEPT !.state = HALF_OPEN] ELSE cb
    IN  [before |-> cb,
         after |-> IF r.ok THEN _on_success(entered) ELSE _on_failure(entered, t + d),
         at |-> t, end |-> t + d,
         max_retries |-> max_retries, outs |-> outs,
         rejected |-> FALSE, probe |-> entered.state = HALF_OPEN, raised |-> ~r.ok,
         exc |-> r.exc, value |-> r.value, attempts |-> r.attempts,
         sleeps |-> r.sleeps]

\* (the singleton sets below bind a value that is used several times)
CircuitBreakerCall(cb, t, d, max_retries, base_delay, outs) ==
    IF cb.state = OPEN /\ ~_should_attempt_reset(cb, t)
    THEN [before |-> cb, after |-> cb, at |-> t, end |-> t,
          max_retries |-> max_retries, outs |-> outs,
          rejected |-> TRUE, probe |-> FALSE, raised |-> TRUE, exc |-> Unavailable,
          value |-> 0, attempts |-> 0, sleeps |-> <<>>]
    ELSE CHOOSE obs \in {Attempted(cb, t, d, max_retries, outs, r) :
                            r \in {retry_with_backoff(max_retries, base_delay, outs, 0, <<>>)}} :
             TRUE

(***************************************************************************)
(* Values that cross the adapter boundary.  A value is None, a list of     *)
(* records or a dict; a dict holds a list of records under one key (key =  *)
(* "" is the empty dict).  Records are named by their id.  A text is a      *)
(* string, known by where it came from.                                    *)
(***************************************************************************)
NoneValue == [type |-> "none", key |-> "", items |-> <<>>]
List(items) == [type |-> "list", key |-> "", items |-> items]
Dict(key, items) == [type |-> "dict", key |-> key, items |-> items]
Text(origin) == [type |-> "text", key |-> origin, items |-> <<>>]

\* `not data'
Falsy(data) ==
    \/ data.type = "none"
    \/ data.type = "list" /\ data.items = <<>>
    \/ data.type = "dict" /\ data.key = ""

\* data.get(key, [])
DictGet(data, key) == IF data.key = key THEN data.items ELSE <<>>

\* What a public method gives back: a value, or an exception.
Returned(value) == [raised |-> FALSE, value |-> value]
Raised == [raised |-> TRUE, value |-> NoneValue]

\* @retry_with_backoff(max_retries=..., base_delay=...) of each _api_request
MaxRetriesOf(svc) == IF svc = "search" THEN 2 ELSE 3
BaseDelayOf(svc) == IF svc = "search" THEN 100 ELSE 1000


(***************************************************************************)
(* Python's list.sort(key=..., reverse=True): descending and stable.  key   *)
(* is a function from the records to integers.                             *)
(***************************************************************************)
\* where seq[i] goes: after every record with a greater key, and after the
\* records with the same key that stood before it
Rank(seq, key, i) ==
    1 + Cardinality({j \in DOMAIN seq :
                        \/ key[seq[j]] > key[seq[i]]
                        \/ key[seq[j]] = key[seq[i]] /\ j < i})

Ranked(seq, rank) == [k \in DOMAIN seq |-> seq[CHOOSE i \in DOMAIN seq : rank[i] = k]]

SortWith(seq, key) ==
    CHOOSE sorted \in {Ranked(seq, rank) : rank \in {[i \in DOMAIN seq |-> Rank(seq, key, i)]}} :
        TRUE

\* seq.sort(key=..., reverse=True): descending, equal keys keep their order
SortDesc(seq, key) == CHOOSE sorted \in {SortWith(q, k) : q \in {seq}, k \in {key}} : TRUE

\* seq[:n]
Take(seq, n) == SubSeq(seq, 1, IF n < Len(seq) THEN n ELSE Len(seq))

(***************************************************************************)
(* What the providers answer when a call succeeds.  Value 1 is an answer   *)
(* with records, value 2 an answer without any.                            *)
(***************************************************************************)
LiveItems(svc, v) ==
    IF v # 1 THEN <<>>
    ELSE CASE svc = "search"   -> <<"live_cafe", "live_palace">>
           [] svc = "cultural" -> <<"live_anime", "live_drama">>
           [] svc = "maps"     -> <<"live_tower", "live_busan_pier">>
           [] OTHER            -> <<>>

LiveData(svc, v) ==
    CASE svc = "search"   -> Dict("hits", LiveItems(svc, v))
      [] svc = "cultural" -> Dict("Similar", LiveItems(svc, v))
      [] svc = "maps"     -> Dict("results", LiveItems(svc, v))
      [] svc = "gemini"   -> Text("generated")
      [] OTHER            -> NoneValue

(***************************************************************************)
(* SearchService (utils/algolia_api.py)                                    *)
(***************************************************************************)
\* The words a query is made of.  A query is the sequence of its terms
\* (query.lower().split()); <<>> is the empty query.
fallback_places ==
    << "fallback_myeongdong_market", "fallback_korean_bbq", "fallback_kimchi_house",
       "fallback_hongdae_playground", "fallback_itaewon_global", "fallback_gangnam_district" >>

\* p['category']
Category(p) ==
    CASE p \in {"fallback_myeongdong_market", "fallback_korean_bbq",
                "fallback_kimchi_house", "fallback_itaewon_market", "live_cafe",
                "hit_pork_belly_house"} -> "restaurant"
      [] OTHER -> "attraction"

\* The terms of Terms that occur in name + cultural_context + description + tags
SearchableText(p) ==
    CASE p = "fallback_myeongdong_market"  -> {"korean", "food", "market"}
      [] p = "fallback_korean_bbq"         -> {"korean", "food", "bbq", "eat"}
      [] p = "fallback_kimchi_house"       -> {"korean", "food", "kimchi"}
      [] p = "fallback_hongdae_playground" -> {"korean", "hongdae"}
      [] p = "fallback_itaewon_global"     -> {}
      [] p = "fallback_gangnam_district"   -> {"korean"}
      [] OTHER                             -> {}

Terms == {"korean", "places", "food", "bbq", "eat", "kimchi", "market", "hongdae", "sushi"}

_normalize_place_type(place_type) ==
    CASE place_type \in {"restaurants", "food", "dining"}          -> "restaurant"
      [] place_type \in {"attractions", "sights", "sightseeing"}   -> "attraction"
      [] place_type \in {"hotels", "accommodation", "lodging"}     -> "hotel"
      [] place_type \in {"transport", "transportation", "transit"} -> "transport"
      [] OTHER                                                     -> place_type

\* place_type = "" stands for None
_get_fallback_search_results(query, place_type) ==
    LET typed == IF place_type # ""
                 THEN SelectSeq(fallback_places,
                                LAMBDA p : Category(p) = _normalize_place_type(place_type))
                 ELSE fallback_places
    IN  IF query # <<>>
        THEN SelectSeq(typed, LAMBDA p : \E i \in DOMAIN query : query[i] \in SearchableText(p))
        ELSE typed

SearchService_handle_fallback(error) ==
    List(_get_fallback_search_results(<<"korean", "places">>, ""))

\* cultural_relevance of a live hit: the number of cultural keywords in its text
LiveRelevance(p) ==
    CASE p = "live_cafe" -> 1 [] p = "live_palace" -> 4 [] OTHER -> 0

_enrich_search_results(hits) ==
    SortDesc(hits, [p \in {hits[i] : i \in DOMAIN hits} |-> LiveRelevance(p)])


\* neighborhood_data of _get_fallback_neighborhood_results
neighborhood_data(neighborhood) ==
    CASE neighborhood = "hongdae"    -> <<"fallback_hongdae_club", "fallback_hongik_uni">>
      [] neighborhood = "myeongdong" -> <<"fallback_myeongdong_cathedral", "fallback_myeongdong_shopping">>
      [] neighborhood = "itaewon"    -> <<"fallback_itaewon_market", "fallback_war_memorial">>
      [] neighborhood = "gangnam"    -> <<"fallback_gangnam_style", "fallback_coex_mall">>
      [] OTHER                       -> <<>>

_get_fallback_neighborhood_results(neighborhood, place_type) ==
    LET places == neighborhood_data(neighborhood)
    IN  IF place_type # ""
        THEN SelectSeq(places, LAMBDA p : Category(p) = _normalize_place_type(place_type))
        ELSE places

\* search_places(query, location, place_type) from the value _make_request gave
search_places(query, place_type, data) ==
    IF Falsy(data)
    THEN Returned(List(_get_fallback_search_results(query, place_type)))
    ELSE IF data.type = "list"
    THEN Returned(data)
    ELSE IF data.type # "dict"     \* data.get raises: the except branch
    THEN Returned(List(_get_fallback_search_results(query, place_type)))
    ELSE Returned(List(_enrich_search_results(DictGet(data, "hits"))))

\* search_by_neighborhood(neighborhood, place_type) from the value _make_request gave
search_by_neighborhood(neighborhood, place_type, data) ==
    IF Falsy(data)
    THEN Returned(List(_get_fallback_neighborhood_results(neighborhood, place_type)))
    ELSE IF data.type = "list"
    THEN Returned(data)
    ELSE IF data.type # "dict"
    THEN Returned(List(_get_fallback_neighborhood_results(neighborhood, place_type)))
    ELSE Returned(List(_enrich_search_results(DictGet(data, "hits"))))

(***************************************************************************)
(* CulturalDiscoveryEngine (utils/tastedive_api.py)                        *)
(***************************************************************************)
\* local_cultural_knowledge, in the order of the dict; records are named by 'Name'
KnowledgeCategories == <<"movies", "music", "shows", "books", "experiences">>

local_cultural_knowledge(category) ==
    CASE category = "movies"      -> <<"Parasite", "Oldboy", "Train to Busan", "Burning">>
      [] category = "music"       -> <<"BTS", "BLACKPINK", "IU", "Pansori">>
      [] category = "shows"       -> <<"Squid Game", "Kingdom", "Crash Landing on You", "Reply 1988">>
      [] category = "books"       -> <<"Please Look After Mom", "The Vegetarian", "Pachinko">>
      [] category = "experiences" -> <<"Korean Temple Stay", "Korean Cooking Class",
                                       "Hanbok Experience", "Korean Tea Ceremony">>
      [] OTHER                    -> <<>>

\* cultural_relevance, in hundredths
cultural_relevance(p) ==
    CASE p = "Parasite" -> 95 [] p = "Oldboy" -> 90 [] p = "Train to Busan" -> 85
      [] p = "Burning" -> 88 [] p = "BTS" -> 98 [] p = "BLACKPINK" -> 95 [] p = "IU" -> 92
      [] p = "Pansori" -> 99 [] p = "Squid Game" -> 96 [] p = "Kingdom" -> 90
      [] p = "Crash Landing on You" -> 87 [] p = "Reply 1988" -> 94
      [] p = "Please Look After Mom" -> 93 [] p = "The Vegetarian" -> 91
      [] p = "Pachinko" -> 89 [] p = "Korean Temple Stay" -> 97
      [] p = "Korean Cooking Class" -> 95 [] p = "Hanbok Experience" -> 93
      [] p = "Korean Tea Ceremony" -> 90
      [] p = "live_drama" -> 45     \* _calculate_cultural_relevance_score of its text
      [] p = "live_anime" -> 5
      [] OTHER -> 0

RECURSIVE ConcatFrom(_, _)
ConcatFrom(seqs, i) == IF i > Len(seqs) THEN <<>> ELSE seqs[i] \o ConcatFrom(seqs, i + 1)

\* list.extend over the sequences of seqs, in order
Concat(seqs) == CHOOSE all \in {ConcatFrom(q, 1) : q \in {seqs}} : TRUE

_get_fallback_korean_experiences(query, content_type, limit) ==
    IF content_type \in {KnowledgeCategories[i] : i \in DOMAIN KnowledgeCategories}
    THEN Take(local_cultural_knowledge(content_type), limit)
    ELSE IF content_type = "all"
    THEN Take(Concat([i \in DOMAIN KnowledgeCategories |->
                        Take(local_cultural_knowledge(KnowledgeCategories[i]), 2)]), limit)
    ELSE Take(local_cultural_knowledge("experiences"), limit)

CulturalDiscoveryEngine_handle_fallback(error) == NoneValue

\* relevance_score after the boost for a Korean query
Boosted(p, query_is_korean) ==
    IF query_is_korean /\ cultural_relevance(p) < 20 THEN 20 ELSE cultural_relevance(p)

\* keeps relevance_score > 0.1
_filter_and_score_korean_relevance(items, query_is_korean) ==
    SelectSeq(items, LAMBDA p : Boosted(p, query_is_korean) > 10)

RelevanceKey(items, query_is_korean) ==
    [p \in {items[i] : i \in DOMAIN items} |-> Boosted(p, query_is_korean)]

\* korean_relevant.sort(key=cultural_relevance, reverse=True); korean_relevant[:limit]
SortedByRelevance(items, limit, query_is_korean) ==
    CHOOSE top \in {Take(SortDesc(q, RelevanceKey(q, query_is_korean)), limit) : q \in {items}} :
        TRUE

\* _get_results_for_type(query, content_type, limit) from the value _make_request gave
_get_results_for_type(query, content_type, limit, query_is_korean, data) ==
    IF Falsy(data)
    THEN _get_fallback_korean_experiences(query, content_type, limit)
    ELSE IF data.type # "dict"      \* data.get raises: the except branch
    THEN _get_fallback_korean_experiences(query, content_type, limit)
    ELSE SortedByRelevance(
             _filter_and_score_korean_relevance(DictGet(data, "Similar"), query_is_korean),
             limit, query_is_korean)

types_to_try == <<"movie", "music", "show", "book">>

Max(a, b) == IF a >= b THEN a ELSE b

\* find_similar_korean_experiences(query, content_type, limit) from the values
\* its requests got, one per type tried
find_similar_korean_experiences(query, content_type, limit, query_is_korean, datas) ==
    IF content_type = "all"
    THEN LET results_per_type == Max(1, limit \div Len(types_to_try))
         IN  Returned(List(SortedByRelevance(
                 Concat([i \in DOMAIN types_to_try |->
                            _get_results_for_type(query, types_to_try[i], results_per_type,
                                                  query_is_korean, datas[i])]),
                 limit, query_is_korean)))
    ELSE Returned(List(_get_results_for_type(query, content_type, limit, query_is_korean, datas[1])))

(***************************************************************************)
(* GoogleMapsService (utils/googlemaps_api.py)                             *)
(***************************************************************************)
\* _get_fallback_place_details("fallback_place"): a dict with no 'results'
GoogleMapsService_handle_fallback(error) == Dict("place_id", <<>>)

_get_fallback_nearby_places(location) == <<"fallback_nearby_1">>

_get_fallback_search_places(query) == <<"fallback_search_1">>

_is_in_seoul(p) == p \in {"live_tower"}

_filter_korean_relevant_places(places) == SelectSeq(places, _is_in_seoul)

\* variant: the provider's answer is handed on as it came
find_nearby_places_as_given(location, data) ==
    IF Falsy(data) THEN Returned(List(<<>>)) ELSE Returned(data)

\* find_nearby_places(location, place_type, radius) from the value _make_request gave
find_nearby_places(location, data) ==
    IF Falsy(data)
    THEN Returned(List(<<>>))
    ELSE IF data.type # "dict"      \* data.get raises: the except branch
    THEN Returned(List(_get_fallback_nearby_places(location)))
    ELSE Returned(List(_filter_korean_relevant_places(DictGet(data, "results"))))

\* search_places_by_text(query, location) from the value _make_request gave
search_places_by_text(query, data) ==
    IF Falsy(data)
    THEN Returned(List(<<>>))
    ELSE IF data.type # "dict"
    THEN Returned(List(_get_fallback_search_places(query)))
    ELSE Returned(List(_filter_korean_relevant_places(DictGet(data, "results"))))

(***************************************************************************)
(* BaseService._make_request(self._api_request, ...)                       *)
(***************************************************************************)
\* GeminiService._handle_fallback: a fixed apology
GeminiService_handle_fallback(error) == Text("apology")

_handle_fallback(svc, error) ==
    CASE svc = "search"   -> SearchService_handle_fallback(error)
      [] svc = "cultural" -> CulturalDiscoveryEngine_handle_fallback(error)
      [] svc = "maps"     -> GoogleMapsService_handle_fallback(error)
      [] svc = "gemini"   -> GeminiService_handle_fallback(error)
      [] OTHER            -> NoneValue

\* what the except branch or the return of _make_request yields for obs
Yield(svc, obs) ==
    [obs |-> obs,
     data |-> IF obs.raised THEN _handle_fallback(svc, obs.exc) ELSE LiveData(svc, obs.value)]

\* variant: a rejection by the open breaker does not reach _handle_fallback
YieldUnlessRejected(svc, obs) ==
    [obs |-> obs,
     data |-> IF obs.rejected THEN NoneValue
              ELSE IF obs.raised THEN _handle_fallback(svc, obs.exc)
              ELSE LiveData(svc, obs.value)]

_make_request_rejection_unhandled(svc, cb, t, d, outs) ==
    CHOOSE req \in {YieldUnlessRejected(svc, obs) :
                       obs \in {CircuitBreakerCall(cb, t, d, MaxRetriesOf(svc),
                                                   BaseDelayOf(svc), outs)}} : TRUE

_make_request(svc, cb, t, d, outs) ==
    CHOOSE req \in {Yield(svc, obs) :
                       obs \in {CircuitBreakerCall(cb, t, d, MaxRetriesOf(svc),
                                                   BaseDelayOf(svc), outs)}} : TRUE


(***************************************************************************)
(* The bare circuit breaker: one CircuitBreaker object, a clock, and       *)
(* callers that pass it a function wrapped by retry_with_backoff.          *)
(***************************************************************************)
\* the function raises on its first k attempts, returns 1 on the next, 2 after
Pattern(n, k) == [i \in 1..(n + 1) |-> IF i <= k THEN 0 ELSE IF i = k + 1 THEN 1 ELSE 2]

Patterns(n) == {Pattern(n, k) : k \in 0..(n + 1)}

RetryCounts == {0, DefaultMaxRetries}

Durations == {0, TickStep}

Thresholds == (1..MaxThreshold) \cup {DefaultFailureThreshold}

NoCall == [op |-> "none", args |-> <<>>, requests |-> <<>>, result |-> Returned(NoneValue)]

\* consecutive failures of the wrapped function, as a caller counts them
Streak(n, obs) == IF obs.rejected THEN n ELSE IF obs.raised THEN n + 1 ELSE 0

Init ==
    /\ service = "none"
    /\ circuit_breaker \in {CircuitBreaker(n, DefaultRecoveryTimeout) : n \in Thresholds}
    /\ now = 1
    /\ call = NoCall
    /\ streak = 0
    /\ online = {}
    /\ users = <<>>
    /\ threads = <<>>

\* time passes between calls
Tick ==
    /\ now + TickStep <= MaxTime
    /\ now' = now + TickStep
    /\ UNCHANGED <<service, circuit_breaker, call, streak, online, users, threads>>

\* circuit_breaker.call(func), func decorated with retry_with_backoff(n)
Call ==
    \E n \in RetryCounts, d \in Durations :
      \E outs \in Patterns(n) :
        \E obs \in {CircuitBreakerCall(circuit_breaker, now, d, n, 1000, outs)} :
            /\ obs.end <= MaxTime
            /\ circuit_breaker' = obs.after
            /\ now' = obs.end
            /\ call' = [op |-> "call", args |-> <<>>, requests |-> <<obs>>,
                        result |-> [raised |-> obs.raised, value |-> obs.value]]
            /\ streak' = Streak(streak, obs)
            /\ UNCHANGED <<service, online, users, threads>>

Next == Tick \/ Call

Spec == Init /\ [][Next]_vars


(***************************************************************************)
(* One adapter (a BaseService with its own default CircuitBreaker) and     *)
(* callers of its public search methods.                                   *)
(***************************************************************************)
Queries == {<<>>, <<"kimchi">>, <<"sushi">>, <<"korean", "food">>}

PlaceTypes == {"", "food", "hotel"}

Neighborhoods == {"hongdae", "itaewon", "jongno"}

ContentTypes == {"all", "music"}

Limits == {10}

\* every attempt of the provider function raises
AllRaise(n) == Pattern(n, n + 1)

\* SearchService.client is None after __init__, so its _api_request raises on
\* every attempt; the other providers answer or fail as the network decides
ProviderPatterns(svc) ==
    IF svc = "search" THEN {AllRaise(MaxRetriesOf(svc))} ELSE Patterns(MaxRetriesOf(svc))

\* how one request goes: the time it takes and what the provider does
Plans(svc) == {[d |-> 0, outs |-> outs] : outs \in ProviderPatterns(svc)}

\* the requests of a fan-out over types_to_try: each answers at once or fails throughout
FanOutPlans(svc) ==
    {[d |-> 0, outs |-> Pattern(MaxRetriesOf(svc), 0)],
     [d |-> 0, outs |-> AllRaise(MaxRetriesOf(svc))]}

\* the requests of one public method, made one after the other on the same breaker
RECURSIVE MakeRequests(_, _, _, _, _)
MakeRequests(svc, cb, t, plans, done) ==
    IF plans = <<>> THEN done
    ELSE CHOOSE all \in {MakeRequests(svc, r.obs.after, r.obs.end, Tail(plans), Append(done, r)) :
                            r \in {_make_request(svc, cb, t, Head(plans).d, Head(plans).outs)}} :
             TRUE

RECURSIVE StreakAll(_, _)
StreakAll(n, reqs) ==
    IF reqs = <<>> THEN n ELSE StreakAll(Streak(n, Head(reqs).obs), Tail(reqs))

\* the public method op applied to what its requests got
PublicMethod(op, args, datas) ==
    CASE op = "search_places" ->
             search_places(args.query, args.place_type, datas[1])
      [] op = "search_by_neighborhood" ->
             search_by_neighborhood(args.neighborhood, args.place_type, datas[1])
      [] op = "find_similar_korean_experiences" ->
             find_similar_korean_experiences(args.query, args.content_type, args.limit,
                                             args.query_is_korean, datas)
      [] op = "find_nearby_places" ->
             find_nearby_places(args.location, datas[1])
      [] op = "search_places_by_text" ->
             search_places_by_text(args.query, datas[1])
      [] OTHER -> Raised

\* a public method runs to its end: its requests pass through the breaker in
\* turn, and its result is computed from what they got
Invoke(svc, op, args, plans) ==
    /\ service = svc
    /\ \E reqs \in {MakeRequests(svc, circuit_breaker, now, plans, <<>>)} :
       \E last \in {reqs[Len(reqs)].obs} :
        /\ last.end <= MaxTime
        /\ circuit_breaker' = last.after
        /\ now' = last.end
        /\ call' = [op |-> op, args |-> args,
                    requests |-> [i \in DOMAIN reqs |-> reqs[i].obs],
                    result |-> PublicMethod(op, args, [i \in DOMAIN reqs |-> reqs[i].data])]
        /\ streak' = StreakAll(streak, reqs)
        /\ UNCHANGED <<service, online, users, threads>>

InitAdapter ==
    /\ service \in Adapters
    /\ circuit_breaker = CircuitBreaker(DefaultFailureThreshold, DefaultRecoveryTimeout)
    /\ now = 1
    /\ call = NoCall
    /\ streak = 0
    /\ online = {}
    /\ users = <<>>
    /\ threads = <<>>

\* time passes between calls
Wait ==
    /\ now + WaitStep <= MaxTime
    /\ now' = now + WaitStep
    /\ UNCHANGED <<service, circuit_breaker, call, streak, online, users, threads>>

SearchPlaces ==
    \E query \in Queries, place_type \in PlaceTypes, plan \in Plans("search") :
        Invoke("search", "search_places",
               [query |-> query, place_type |-> place_type], <<plan>>)

SearchByNeighborhood ==
    \E neighborhood \in Neighborhoods, place_type \in PlaceTypes, plan \in Plans("search") :
        Invoke("search", "search_by_neighborhood",
               [neighborhood |-> neighborhood, place_type |-> place_type], <<plan>>)

FindSimilarKoreanExperiences ==
    \E query \in {<<"kimchi">>}, content_type \in ContentTypes, limit \in Limits,
       query_is_korean \in BOOLEAN :
        LET args == [query |-> query, content_type |-> content_type, limit |-> limit,
                     query_is_korean |-> query_is_korean]
        IN  IF content_type = "all"
            THEN \E plans \in [DOMAIN types_to_try -> FanOutPlans("cultural")] :
                     Invoke("cultural", "find_similar_korean_experiences", args, plans)
            ELSE \E plan \in Plans("cultural") :
                     Invoke("cultural", "find_similar_korean_experiences", args, <<plan>>)

FindNearbyPlaces ==
    \E plan \in Plans("maps") :
        Invoke("maps", "find_nearby_places", [location |-> "seoul"], <<plan>>)

SearchPlacesByText ==
    \E query \in Queries, plan \in Plans("maps") :
        Invoke("maps", "search_places_by_text", [query |-> query], <<plan>>)

NextAdapter ==
    \/ Wait
    \/ SearchPlaces
    \/ SearchByNeighborhood
    \/ FindSimilarKoreanExperiences
    \/ FindNearbyPlaces
    \/ SearchPlacesByText

SpecAdapter == InitAdapter /\ [][NextAdapter]_vars

(***************************************************************************)
(* LocalGuideSystem (utils/local_guide_system.py).  Scores are in          *)
(* hundredths.  A recommendation is the record of an adapter with the      *)
(* fields the orchestrator sets on it.                                     *)
(***************************************************************************)
\* rec.get('Name', rec.get('name', ''))
Name(p) ==
    CASE p = "fallback_myeongdong_market"  -> "Myeongdong Street Food Market"
      [] p = "fallback_korean_bbq"         -> "Authentic Korean BBQ House"
      [] p = "fallback_kimchi_house"       -> "Traditional Kimchi House"
      [] p = "fallback_hongdae_playground" -> "Hongdae Playground"
      [] p = "fallback_itaewon_global"     -> "Itaewon Global Village"
      [] p = "fallback_gangnam_district"   -> "Gangnam Style District"
      [] p = "hit_pork_belly_house"        -> "Pork Belly House"
      [] OTHER                             -> p

\* rec.get('neighborhood', '')
NeighborhoodOf(p) ==
    CASE p = "fallback_myeongdong_market"  -> "myeongdong"
      [] p = "fallback_korean_bbq"         -> "hongdae"
      [] p = "fallback_kimchi_house"       -> "insadong"
      [] p = "fallback_hongdae_playground" -> "hongdae"
      [] p = "fallback_itaewon_global"     -> "itaewon"
      [] p = "fallback_gangnam_district"   -> "gangnam"
      [] p = "Gyeongbokgung Palace"           -> "jongno"
      [] p = "Hongdae Street Food"            -> "hongdae"
      [] p = "Insadong Traditional Tea House" -> "insadong"
      [] OTHER                             -> ""

\* the keys of self.neighborhood_insights, in the order of the dict
neighborhood_insights_keys ==
    <<"hongdae", "myeongdong", "itaewon", "gangnam", "jongno", "insadong">>

neighborhood_insights == {neighborhood_insights_keys[i] : i \in DOMAIN neighborhood_insights_keys}

\* rec.get('cultural_relevance', 0): the search records carry 5, 4 or 3, the
\* cultural records a fraction of one
RelevanceOf(p) ==
    CASE p \in {"fallback_myeongdong_market", "fallback_korean_bbq",
                "fallback_kimchi_house"}                                 -> 500
      [] p \in {"fallback_hongdae_playground", "fallback_gangnam_district"} -> 400
      [] p = "fallback_itaewon_global"                                   -> 300
      [] OTHER                                                           -> cultural_relevance(p)

\* _calculate_authenticity_score(rec) of a record whose source the
\* orchestrator has set: 0.5, the authenticity_weights of the keywords in its
\* text, and 0.1 for a neighborhood of neighborhood_insights
_calculate_authenticity_score(p) ==
    CASE p = "fallback_myeongdong_market" -> 87
      [] p \in {"fallback_korean_bbq", "fallback_kimchi_house"} -> 78
      [] p \in {"fallback_itaewon_global", "Korean Temple Stay", "Hanbok Experience"} -> 68
      [] p \in {"fallback_hongdae_playground", "fallback_gangnam_district",
                "Pansori", "Korean Tea Ceremony"} -> 60
      [] p \in {"Crash Landing on You", "Korean Cooking Class",
                "fallback_itaewon_market"} -> 58
      [] OTHER -> 50

\* restriction_keywords of _violates_food_restrictions
restriction_keywords(restriction) ==
    CASE restriction = "vegetarian" ->
             {"meat", "beef", "pork", "chicken", "fish", "seafood", "bbq"}
      [] restriction = "vegan" ->
             {"meat", "beef", "pork", "chicken", "fish", "seafood", "dairy", "egg", "bbq"}
      [] restriction = "no_spicy" -> {"spicy", "hot", "chili", "gochujang", "kimchi"}
      [] restriction = "halal" -> {"pork", "alcohol", "wine", "beer"}
      [] restriction = "gluten_free" -> {"wheat", "noodle", "bread", "flour"}
      [] OTHER -> {}

\* the restriction keywords that occur in rec_text, which is made of the
\* fields Name, wTeaser, description and cultural_tags of the record
rec_text(p) ==
    CASE p = "fallback_korean_bbq"   -> {"meat", "bbq"}
      [] p = "fallback_kimchi_house" -> {"kimchi"}
      [] OTHER                       -> {}

\* the restriction keywords that occur in the field name of a place record
\* (the search adapter writes name, the cultural adapter Name)
LowercaseName(p) ==
    CASE p = "fallback_korean_bbq"   -> {"bbq"}
      [] p = "fallback_kimchi_house" -> {"kimchi"}
      [] p = "hit_pork_belly_house"  -> {"pork"}
      [] OTHER                       -> {}

_violates_food_restrictions(p, restrictions) ==
    \E restriction \in restrictions : restriction_keywords(restriction) \cap rec_text(p) # {}

\* the interests that occur in the text of the record
InterestsIn(p) ==
    CASE p \in {"fallback_myeongdong_market", "fallback_korean_bbq",
                "fallback_kimchi_house"}         -> {"food", "traditional"}
      [] p = "fallback_hongdae_playground"       -> {"music", "nightlife"}
      [] p \in {"fallback_gangnam_district", "fallback_gangnam_style",
                "BTS", "BLACKPINK"}              -> {"k-pop"}
      [] p = "fallback_hongdae_club"             -> {"music", "nightlife"}
      [] p = "Pansori"                           -> {"music", "traditional"}
      [] p = "Korean Temple Stay"                -> {"temple"}
      [] p \in {"Hanbok Experience", "Korean Tea Ceremony"} -> {"traditional"}
      [] OTHER                                   -> {}

\* _calculate_personalization_score, in thousandths
_calculate_personalization_score(p, user_interests, cultural_preferences) ==
    300 * Cardinality(InterestsIn(p) \cap user_interests)
      + 200 * Cardinality(InterestsIn(p) \cap cultural_preferences)
      + RelevanceOf(p)

\* theme_keywords, as far as the terms of Terms go
theme_keywords(theme) ==
    CASE theme = "food_culture" -> {"food", "eat", "bbq", "kimchi"}
      [] theme = "shopping"     -> {"market"}
      [] OTHER                  -> {}

TermsOf(query) == {query[i] : i \in DOMAIN query}

_detect_cultural_themes(query) ==
    LET themes == SelectSeq(<<"food_culture", "traditional_culture", "modern_culture",
                              "nightlife", "shopping", "nature", "entertainment">>,
                            LAMBDA theme : theme_keywords(theme) \cap TermsOf(query) # {})
    IN  IF themes # <<>> THEN themes ELSE <<"general_culture">>

\* the neighborhood the query names, "" for None
_detect_neighborhood_focus(query) ==
    LET named == SelectSeq(neighborhood_insights_keys, LAMBDA n : n \in TermsOf(query))
    IN  IF named # <<>> THEN Head(named) ELSE ""

\* a user profile: None, or a dict with preferences and history.  In a
\* malformed profile a record of history.visited_places has no 'name'.
NoProfile ==
    [kind |-> "none", interests |-> {}, food_restrictions |-> {}, visited_places |-> {},
     favorite_places |-> {}]

ReturningVisitor ==
    [kind |-> "dict", interests |-> {"food"}, food_restrictions |-> {"vegetarian"},
     visited_places |-> {"BTS"}, favorite_places |-> {"Korean Temple Stay"}]

MalformedProfile ==
    [kind |-> "malformed", interests |-> {}, food_restrictions |-> {},
     visited_places |-> {}, favorite_places |-> {}]

\* _get_personalization_context(user_profile): {} for no profile; place['name']
\* raises KeyError on a malformed record
_get_personalization_context(user_profile) ==
    CASE user_profile.kind = "none" -> Returned(Dict("", <<>>))
      [] user_profile.kind = "malformed" -> Raised
      [] OTHER -> Returned([type |-> "dict", key |-> "context", items |-> <<>>,
                            interests |-> user_profile.interests,
                            food_restrictions |-> user_profile.food_restrictions,
                            cultural_preferences |-> {},
                            visited_places |-> user_profile.visited_places,
                            favorite_places |-> user_profile.favorite_places])

\* what _analyze_user_intent adds to the answer of extract_entity_with_context,
\* which turns the text _make_request gave into a dict and never raises
_analyze_user_intent(user_query, text) ==
    [entity_from |-> text.key,
     cultural_themes |-> _detect_cultural_themes(user_query),
     neighborhood_focus |-> _detect_neighborhood_focus(user_query)]

\* variant: a service counts as available only while its breaker is closed
is_available_closed_only(cb) == cb.state = CLOSED

\* is_available() of a BaseService
is_available(cb) == cb.state # OPEN

\* the records of a list with rec['source'] and rec['recommendation_type'] set;
\* the loop over anything else than a list of records adds nothing
Tagged(result, source, recommendation_type) ==
    IF result.raised \/ result.value.type # "list" THEN <<>>
    ELSE [i \in DOMAIN result.value.items |->
             [id |-> result.value.items[i], source |-> source,
              recommendation_type |-> recommendation_type]]

\* _apply_personalization_filtering(recommendations, personalization_context)
_apply_personalization_filtering(recommendations, context) ==
    LET kept == SelectSeq(recommendations, LAMBDA rec :
                    /\ Name(rec.id) \notin context.visited_places
                    /\ ~(/\ Category(rec.id) = "restaurant"
                         /\ _violates_food_restrictions(rec.id, context.food_restrictions)))
    IN  SortDesc(kept, [rec \in {kept[i] : i \in DOMAIN kept} |->
                           _calculate_personalization_score(rec.id, context.interests,
                                                            context.cultural_preferences)])

\* _prioritize_authentic_experiences: every record gets its authenticity_score,
\* and the list is sorted by (authenticity_score, cultural_relevance), descending
WithAuthenticity(rec) ==
    [id |-> rec.id, source |-> rec.source, recommendation_type |-> rec.recommendation_type,
     authenticity_score |-> _calculate_authenticity_score(rec.id)]

_prioritize_authentic_experiences(recommendations) ==
    LET scored == [i \in DOMAIN recommendations |-> WithAuthenticity(recommendations[i])]
    IN  SortDesc(scored, [rec \in {scored[i] : i \in DOMAIN scored} |->
                             rec.authenticity_score * 1000 + RelevanceOf(rec.id)])

RECURSIVE TotalScore(_, _)
TotalScore(recommendations, i) ==
    IF i = 0 THEN 0
    ELSE recommendations[i].authenticity_score + TotalScore(recommendations, i - 1)

\* _calculate_overall_authenticity_score, in ten-thousandths
_calculate_overall_authenticity_score(recommendations) ==
    IF recommendations = <<>> THEN 0
    ELSE (100 * TotalScore(recommendations, Len(recommendations))) \div Len(recommendations)

\* the keys of the dict _extract_relevant_neighborhood_insights builds
_extract_relevant_neighborhood_insights(recommendations) ==
    {NeighborhoodOf(recommendations[i].id) : i \in DOMAIN recommendations}
        \cap neighborhood_insights

\* the provider of one request of the orchestrator answers at once or fails throughout
PlanOf(svc, up) ==
    [d |-> 0, outs |-> IF up THEN Pattern(MaxRetriesOf(svc), 0) ELSE AllRaise(MaxRetriesOf(svc))]

ObsOf(reqs) == [i \in DOMAIN reqs |-> reqs[i].obs]

\* what one step of _coordinate_recommendation_services leaves: the breaker,
\* the requests made and the recommendations added
NotAsked(cb) == [after |-> cb, requests |-> <<>>, recommendations |-> <<>>]

\* cultural_engine.find_similar_korean_experiences(user_query, "all", limit=8),
\* asked only of an available engine
CulturalStep(cb, t, user_query, up, query_is_korean) ==
    IF ~is_available(cb) THEN NotAsked(cb)
    ELSE CHOOSE step \in
             {[after |-> reqs[Len(reqs)].obs.after,
               requests |-> ObsOf(reqs),
               recommendations |->
                   Tagged(find_similar_korean_experiences(
                              user_query, "all", 8, query_is_korean,
                              [i \in DOMAIN reqs |-> reqs[i].data]),
                          "cultural_discovery", "cultural_experience")] :
              reqs \in {MakeRequests("cultural", cb, t,
                                     [i \in DOMAIN types_to_try |-> PlanOf("cultural", up)],
                                     <<>>)}} : TRUE

\* search_service.search_places(user_query, location, None)[:6], asked only of
\* an available service; its client is None, so the provider raises
SearchStep(cb, t, user_query) ==
    IF ~is_available(cb) THEN NotAsked(cb)
    ELSE CHOOSE step \in
             {[after |-> req.obs.after,
               requests |-> <<req.obs>>,
               recommendations |->
                   Take(Tagged(search_places(user_query, "", req.data),
                               "search_service", "place"), 6)] :
              req \in {_make_request("search", cb, t, 0, PlanOf("search", FALSE).outs)}} : TRUE

\* search_service.search_by_neighborhood(neighborhood_focus, None)[:4], asked
\* whenever the query names a neighborhood
NeighborhoodStep(cb, t, neighborhood_focus) ==
    IF neighborhood_focus = "" THEN NotAsked(cb)
    ELSE CHOOSE step \in
             {[after |-> req.obs.after,
               requests |-> <<req.obs>>,
               recommendations |->
                   Take(Tagged(search_by_neighborhood(neighborhood_focus, "", req.data),
                               "neighborhood_search", "neighborhood_place"), 4)] :
              req \in {_make_request("search", cb, t, 0, PlanOf("search", FALSE).outs)}} : TRUE

\* the steps of the fan-out; faults are the steps whose adapter call raises
\* before it gets to its provider
FanOutSteps == {"cultural", "search", "neighborhood"}

\* variant: an adapter call that raises takes the other steps with it
TryStepAborting(faults, step, cb, asked) ==
    IF faults # {} THEN NotAsked(cb) ELSE asked

\* try: <the adapter call, the tagging, the extend>
\* except Exception: logger.warning: nothing is added
TryStep(faults, step, cb, asked) ==
    IF step \in faults THEN NotAsked(cb) ELSE asked

\* the end of _coordinate_recommendation_services: the neighborhood step on
\* the breaker the search step left, then the personalization filter when
\* there is a context
Coordinated(cbs, t, intent, context, faults, c, s) ==
    CHOOSE done \in
        {[breakers |-> [cbs EXCEPT !.cultural = c.after, !.search = n.after],
          requests |-> c.requests \o s.requests \o n.requests,
          recommendations |->
              IF Falsy(context)
              THEN c.recommendations \o s.recommendations \o n.recommendations
              ELSE _apply_personalization_filtering(
                       c.recommendations \o s.recommendations \o n.recommendations, context)] :
         n \in {TryStep(faults, "neighborhood", s.after,
                        NeighborhoodStep(s.after, t, intent.neighborhood_focus))}} : TRUE

_coordinate_recommendation_services(cbs, t, user_query, intent, context, up, query_is_korean, faults) ==
    CHOOSE done \in
        {Coordinated(cbs, t, intent, context, faults, c, s) :
         c \in {TryStep(faults, "cultural", cbs.cultural,
                        CulturalStep(cbs.cultural, t, user_query, up, query_is_korean))},
         s \in {TryStep(faults, "search", cbs.search,
                        SearchStep(cbs.search, t, user_query))}} : TRUE

\* GeminiService._generate_content under @retry_with_backoff(max_retries=3):
\* its attempts are the calls of model.generate_content
_generate_content(up) ==
    retry_with_backoff(MaxRetriesOf("gemini"), BaseDelayOf("gemini"),
                       PlanOf("gemini", up).outs, 0, <<>>)

\* ResponseGenerator._generate_gemini_response under its own
\* @retry_with_backoff(max_retries=3): each of its attempts calls
\* gemini_service._generate_content itself, not through _make_request
_generate_gemini_response(up) ==
    LET content == _generate_content(up)
        outs == [i \in 1..(DefaultMaxRetries + 1) |-> IF content.ok THEN 1 ELSE 0]
        composed == retry_with_backoff(DefaultMaxRetries, 1000, outs, 0, <<>>)
    IN  [ok |-> composed.ok, model_calls |-> composed.attempts * content.attempts]

\* the calls of model.generate_content that generate_response makes
model_calls(gemini_cb, up) ==
    IF is_available(gemini_cb) THEN _generate_gemini_response(up).model_calls ELSE 0

\* _generate_cultural_response: response_generator.generate_response asks the
\* provider when its Gemini breaker is not open and formats a template when it
\* is; an exception on the way ends in _generate_emergency_fallback
_generate_cultural_response(gemini_cb, up) ==
    IF is_available(gemini_cb)
    THEN IF up THEN Text("generated") ELSE Text("emergency")
    ELSE Text("template")

\* _handle_recommendation_fallback(user_query, user_profile)
fallback_recommendations ==
    << [id |-> "Gyeongbokgung Palace", source |-> "fallback",
        recommendation_type |-> "", authenticity_score |-> 90],
       [id |-> "Hongdae Street Food", source |-> "fallback",
        recommendation_type |-> "", authenticity_score |-> 80],
       [id |-> "Insadong Traditional Tea House", source |-> "fallback",
        recommendation_type |-> "", authenticity_score |-> 90] >>

\* variant: the fallback dict is not marked as a fallback
_handle_recommendation_fallback_unmarked(user_query, user_profile) ==
    [response |-> Text("structured"),
     recommendations |-> fallback_recommendations,
     cultural_context |-> <<"general_culture">>,
     neighborhood_insights |-> {},
     authenticity_score |-> 8000,
     personalization_applied |-> FALSE,
     fallback_used |-> FALSE]

_handle_recommendation_fallback(user_query, user_profile) ==
    [response |-> Text("structured"),
     recommendations |-> fallback_recommendations,
     cultural_context |-> <<"general_culture">>,
     neighborhood_insights |-> {},
     authenticity_score |-> 8000,
     personalization_applied |-> FALSE,
     fallback_used |-> TRUE]

\* the dict the try of get_recommendation returns
Recommendation(response, enriched, intent, context) ==
    [response |-> response,
     recommendations |-> enriched,
     cultural_context |-> intent.cultural_themes,
     neighborhood_insights |-> _extract_relevant_neighborhood_insights(enriched),
     authenticity_score |-> _calculate_overall_authenticity_score(enriched),
     personalization_applied |-> ~Falsy(context)]

\* variant: without the except branch
get_recommendation_uncaught(user_query, user_profile, attempt) == attempt

\* get_recommendation(user_query, user_profile, location), from the outcome
\* of its try: the except branch answers with the fallback
get_recommendation(user_query, user_profile, attempt) ==
    IF attempt.raised
    THEN Returned(_handle_recommendation_fallback(user_query, user_profile))
    ELSE attempt

(***************************************************************************)
(* One LocalGuideSystem and the callers of get_recommendation.  It owns a  *)
(* breaker for each of the cultural engine, the search service and the     *)
(* Gemini service of its response generator.                               *)
(***************************************************************************)
GuideQueries == {<<>>, <<"hongdae", "food">>}

\* who calls: a profile and a location
Callers ==
    {[user_profile |-> NoProfile, location |-> ""],
     [user_profile |-> NoProfile, location |-> "seoul"],
     [user_profile |-> ReturningVisitor, location |-> "seoul"],
     [user_profile |-> MalformedProfile, location |-> ""]}

GuideBreakers == {"cultural", "search", "gemini"}

\* the providers that answer or fail as the network decides; the search
\* provider always fails
GuideProviders == {"cultural", "gemini"}

InitGuide ==
    /\ service = "guide"
    /\ circuit_breaker =
           [b \in GuideBreakers |->
               CircuitBreaker(DefaultFailureThreshold, DefaultRecoveryTimeout)]
    /\ now = 1
    /\ call = NoCall
    /\ streak = 0
    /\ online \in SUBSET GuideProviders
    /\ users = <<>>
    /\ threads = <<>>

\* a provider that failed starts to answer
Recover ==
    /\ service = "guide"
    /\ \E p \in GuideProviders \ online : online' = online \cup {p}
    /\ UNCHANGED <<service, circuit_breaker, now, call, streak, users, threads>>

\* get_recommendation runs to its end: the intent analysis asks Gemini, the
\* profile is read, the services are coordinated, the recommendations are
\* ordered and the response is written; an exception on the way ends the try
Recommend(user_query, caller, faults) ==
    \E user_profile \in {caller.user_profile}, location \in {caller.location},
       gemini_up \in {"gemini" \in online}, cultural_up \in {"cultural" \in online} :
    \E query_is_korean \in (IF gemini_up /\ cultural_up THEN BOOLEAN ELSE {TRUE}) :
    \E g \in {_make_request("gemini", circuit_breaker.gemini, now, 0,
                            PlanOf("gemini", gemini_up).outs)} :
    \E intent \in {_analyze_user_intent(user_query, g.data)},
       context \in {_get_personalization_context(user_profile)} :
    \E done \in {IF context.raised
                 THEN [breakers |-> circuit_breaker, requests |-> <<>>,
                       recommendations |-> <<>>]
                 ELSE _coordinate_recommendation_services(
                          circuit_breaker, now, user_query, intent, context.value,
                          cultural_up, query_is_korean, faults)} :
    \E enriched \in {_prioritize_authentic_experiences(done.recommendations)} :
    \E attempt \in {IF context.raised THEN Raised
                    ELSE Returned(Recommendation(
                             _generate_cultural_response(g.obs.after, gemini_up),
                             enriched, intent, context.value))} :
        /\ service = "guide"
        /\ circuit_breaker' = [done.breakers EXCEPT !.gemini = g.obs.after]
        /\ call' = [op |-> "get_recommendation",
                    args |-> [user_query |-> user_query, user_profile |-> user_profile,
                              location |-> location, faults |-> faults],
                    requests |-> <<g.obs>> \o done.requests,
                    model_calls |-> IF context.raised THEN 0
                                    ELSE model_calls(g.obs.after, gemini_up),
                    result |-> get_recommendation(user_query, user_profile, attempt)]
        /\ UNCHANGED <<service, now, streak, online, users, threads>>

\* the adapters do what their code does
GetRecommendation ==
    \E user_query \in GuideQueries, caller \in Callers :
        Recommend(user_query, caller, {})

\* some of the adapter calls of the fan-out raise
GetRecommendationFaulty ==
    \E faults \in SUBSET FanOutSteps :
        Recommend(<<"hongdae", "food">>, [user_profile |-> NoProfile, location |-> ""], faults)

\* the guide is left alone until a recovery timeout has passed
Idle ==
    /\ service = "guide"
    /\ now + 3 * WaitStep <= MaxTime
    /\ now' = now + 3 * WaitStep
    /\ UNCHANGED <<service, circuit_breaker, call, streak, online, users, threads>>

NextGuide ==
    \/ Idle
    \/ Recover
    \/ GetRecommendation

SpecGuide == InitGuide /\ [][NextGuide]_vars

\* the guide with adapter calls that raise
NextFanOut ==
    \/ Idle
    \/ GetRecommendationFaulty

SpecFanOut == InitGuide /\ [][NextFanOut]_vars

(***************************************************************************)
(* _apply_personalization_filtering on its own: the recommendations are    *)
(* records in the shapes the adapters write, among them a place of the     *)
(* search adapter, {'name': 'Pork Belly House', 'category': 'restaurant',  *)
(* 'description': 'Grilled specialties', 'cultural_tags': []}.             *)
(***************************************************************************)
MaxRecommendations == 2

FilterRecords ==
    {"fallback_myeongdong_market", "fallback_korean_bbq", "fallback_kimchi_house",
     "hit_pork_belly_house", "Korean Cooking Class"}

FilterRestrictions == {"vegetarian", "no_spicy"}

RecommendationLists ==
    UNION {[1..n -> FilterRecords] : n \in 0..MaxRecommendations}

InitFilter ==
    /\ service = "filter"
    /\ circuit_breaker = CircuitBreaker(DefaultFailureThreshold, DefaultRecoveryTimeout)
    /\ now = 1
    /\ call = NoCall
    /\ streak = 0
    /\ online = {}
    /\ users = <<>>
    /\ threads = <<>>

ApplyPersonalizationFiltering ==
    \E ids \in RecommendationLists, food_restrictions \in SUBSET FilterRestrictions :
    \E recommendations \in {Tagged(Returned(List(ids)), "search_service", "place")},
       context \in {_get_personalization_context(
                       [ReturningVisitor EXCEPT !.food_restrictions = food_restrictions]).value} :
        /\ service = "filter"
        /\ call' = [op |-> "_apply_personalization_filtering",
                    args |-> [recommendations |-> recommendations, context |-> context],
                    requests |-> <<>>,
                    result |-> Returned(List(
                        _apply_personalization_filtering(recommendations, context)))]
        /\ UNCHANGED <<service, circuit_breaker, now, streak, online, users, threads>>

SpecFilter == InitFilter /\ [][ApplyPersonalizationFiltering]_vars

(***************************************************************************)
(* UserProfileManager: the recommendation weights of a user.              *)
(* Weights are in tenths (10 is 1.0), so that a rating step of 0.1 is 1.  *)
(***************************************************************************)
DefaultWeight == 10
MinWeight == 1
MaxWeight == 20
OffScale == 40

\* the five categories of personalization.recommendation_weights
weight_keys == {"food", "culture", "nightlife", "shopping", "nature"}

\* create_user_profile: the personalization.recommendation_weights it inserts
create_user_profile == [key \in weight_keys |-> DefaultWeight]

\* category_mapping.get(category.lower()); "" stands for None
category_mapping(category) ==
    CASE category \in {"restaurant", "food"} -> "food"
      [] category \in {"attraction", "cultural"} -> "culture"
      [] category \in {"nightlife", "bar"} -> "nightlife"
      [] category \in {"shopping", "mall"} -> "shopping"
      [] category \in {"nature", "park"} -> "nature"
      [] OTHER -> ""

\* a weight written back as it is, without max and min
Unbounded(value) == value

\* max(0.1, min(2.0, value))
Bounded(value) ==
    IF value > MaxWeight THEN MaxWeight ELSE IF value < MinWeight THEN MinWeight ELSE value

\* _update_recommendation_weights on the weights of one stored user:
\* the $inc of the category's weight, then every weight written back bounded
_update_recommendation_weights(weights, category, rating) ==
    IF category = "" \/ rating = None \/ rating = 0 THEN weights
    ELSE IF category_mapping(category) = "" THEN weights
    ELSE LET adjustment == rating - 3
             incremented == [weights EXCEPT ![category_mapping(category)] = @ + adjustment]
         IN  [key \in DOMAIN incremented |-> Bounded(incremented[key])]

\* update_one and find_one touch nothing when no document has the _id
UpdateUser(user_id, category, rating) ==
    IF user_id \in DOMAIN users
    THEN [users EXCEPT ![user_id] = _update_recommendation_weights(@, category, rating)]
    ELSE users

UserIds == {"507f1f77bcf86cd799439011"}
\* the rating of a visit: absent, 0, the scale 1..5, and values far off the scale
Ratings == {None} \cup (0..5) \cup {-OffScale, OffScale}
VisitCategories == {"", "restaurant", "hotel"}
FavoriteCategories == {"", "attraction", "restaurant", "hotel"}

InitProfile ==
    /\ service = "profile"
    /\ circuit_breaker = CircuitBreaker(DefaultFailureThreshold, DefaultRecoveryTimeout)
    /\ now = 1
    /\ call = NoCall
    /\ streak = 0
    /\ online = {}
    /\ users = <<>>
    /\ threads = <<>>

CreateUserProfile ==
    \E user_id \in UserIds \ DOMAIN users :
        /\ service = "profile"
        /\ users' = users @@ (user_id :> create_user_profile)
        /\ call' = [op |-> "create_user_profile", args |-> [user_id |-> user_id],
                    requests |-> <<>>, before |-> users, result |-> Returned(NoneValue)]
        /\ UNCHANGED <<service, circuit_breaker, now, streak, online, threads>>

UpdateUserHistory ==
    \E user_id \in UserIds, category \in VisitCategories, rating \in Ratings :
        /\ service = "profile"
        /\ users' = UpdateUser(user_id, category, rating)
        /\ call' = [op |-> "update_user_history",
                    args |-> [user_id |-> user_id, category |-> category, rating |-> rating],
                    requests |-> <<>>, before |-> users, result |-> Returned(NoneValue)]
        /\ UNCHANGED <<service, circuit_breaker, now, streak, online, threads>>

\* add_favorite passes the rating 5
AddFavorite ==
    \E user_id \in UserIds, category \in FavoriteCategories :
        /\ service = "profile"
        /\ users' = UpdateUser(user_id, category, 5)
        /\ call' = [op |-> "add_favorite",
                    args |-> [user_id |-> user_id, category |-> category, rating |-> 5],
                    requests |-> <<>>, before |-> users, result |-> Returned(NoneValue)]
        /\ UNCHANGED <<service, circuit_breaker, now, streak, online, threads>>

NextProfile == CreateUserProfile \/ UpdateUserHistory \/ AddFavorite

SpecProfile == InitProfile /\ [][NextProfile]_vars

(***************************************************************************)
(* One CircuitBreaker shared by the threads of the server (the global      *)
(* service_manager; app.run serves each request in a thread of its own).   *)
(* No lock guards the breaker, so a thread can be preempted between any    *)
(* two reads or writes of its fields: CircuitBreaker.call is taken apart   *)
(* into those steps.  threads[t].at is where thread t stands,              *)
(* threads[t].count the failure_count it read for `+= 1'.                  *)
(***************************************************************************)
MaxCalls == 4
Threads == {"t1", "t2"}
SharedThreshold == 2

\* BaseService.get_status
get_status(svc, cb) ==
    [service |-> svc, state |-> cb.state, failure_count |-> cb.failure_count,
     available |-> is_available(cb)]

\* what the threads have done so far: calls begun, wrapped functions returned
\* and the last status read, with the breaker it was read from
Progress(begun, returned) ==
    [op |-> "call", begun |-> begun, returned |-> returned, status |-> <<>>]

InitThreads ==
    /\ service = "shared"
    /\ circuit_breaker = CircuitBreaker(SharedThreshold, DefaultRecoveryTimeout)
    /\ now = 1
    /\ call = Progress(0, 0)
    /\ streak = 0
    /\ online = {}
    /\ users = <<>>
    /\ threads = [t \in Threads |-> [at |-> "idle", count |-> 0]]

At(t, at) == [threads EXCEPT ![t].at = at]

\* time passes
Elapse ==
    /\ service = "shared"
    /\ now + 3 * WaitStep <= MaxTime
    /\ now' = now + 3 * WaitStep
    /\ UNCHANGED <<service, circuit_breaker, call, streak, online, users, threads>>

\* call(): the test of self.state; an OPEN breaker lets the thread in as the
\* probe or raises, any other state lets it in
Enter(t) ==
    /\ service = "shared"
    /\ threads[t].at = "idle"
    /\ call.op = "call" /\ call.begun < MaxCalls
    /\ call' = [call EXCEPT !.begun = @ + 1]
    /\ IF circuit_breaker.state = OPEN
       THEN IF _should_attempt_reset(circuit_breaker, now)
            THEN /\ circuit_breaker' = [circuit_breaker EXCEPT !.state = HALF_OPEN]
                 /\ threads' = At(t, "func")
            ELSE UNCHANGED <<circuit_breaker, threads>>
       ELSE /\ threads' = At(t, "func")
            /\ UNCHANGED circuit_breaker
    /\ UNCHANGED <<service, now, streak, online, users>>

\* func(*args, **kwargs) returns
FuncReturns(t) ==
    /\ threads[t].at = "func"
    /\ threads' = At(t, "on_success")
    /\ call' = [call EXCEPT !.returned = @ + 1]
    /\ UNCHANGED <<service, circuit_breaker, now, streak, online, users>>

\* func(*args, **kwargs) raises
FuncRaises(t) ==
    /\ threads[t].at = "func"
    /\ threads' = At(t, "on_failure")
    /\ UNCHANGED <<service, circuit_breaker, now, call, streak, online, users>>

\* _on_success: self.failure_count = 0
ResetCount(t) ==
    /\ threads[t].at = "on_success"
    /\ circuit_breaker' = [circuit_breaker EXCEPT !.failure_count = 0]
    /\ threads' = At(t, "close")
    /\ UNCHANGED <<service, now, call, streak, online, users>>

\* _on_success: self.state = CircuitState.CLOSED
Close(t) ==
    /\ threads[t].at = "close"
    /\ circuit_breaker' = [circuit_breaker EXCEPT !.state = CLOSED]
    /\ threads' = At(t, "idle")
    /\ streak' = 0
    /\ UNCHANGED <<service, now, call, online, users>>

\* _on_failure: the read of self.failure_count in `self.failure_count += 1'
ReadCount(t) ==
    /\ threads[t].at = "on_failure"
    /\ threads' = [threads EXCEPT ![t] = [at |-> "add", count |-> circuit_breaker.failure_count]]
    /\ UNCHANGED <<service, circuit_breaker, now, call, streak, online, users>>

\* _on_failure: the write of `self.failure_count += 1'
WriteCount(t) ==
    /\ threads[t].at = "add"
    /\ circuit_breaker' = [circuit_breaker EXCEPT !.failure_count = threads[t].count + 1]
    /\ threads' = [threads EXCEPT ![t] = [at |-> "stamp", count |-> 0]]
    /\ UNCHANGED <<service, now, call, streak, online, users>>

\* _on_failure: self.last_failure_time = time.time()
Stamp(t) ==
    /\ threads[t].at = "stamp"
    /\ circuit_breaker' = [circuit_breaker EXCEPT !.last_failure_time = now]
    /\ threads' = At(t, "compare")
    /\ UNCHANGED <<service, now, call, streak, online, users>>

\* _on_failure: if self.failure_count >= self.failure_threshold: self.state = OPEN
Compare(t) ==
    /\ threads[t].at = "compare"
    /\ circuit_breaker' =
           IF circuit_breaker.failure_count >= circuit_breaker.failure_threshold
           THEN [circuit_breaker EXCEPT !.state = OPEN]
           ELSE circuit_breaker
    /\ threads' = At(t, "idle")
    /\ streak' = streak + 1
    /\ UNCHANGED <<service, now, call, online, users>>

\* a health check reads the status while the threads are where they are
GetStatus ==
    /\ service = "shared"
    /\ call' = [call EXCEPT !.status = <<[of |-> circuit_breaker,
                                          is_available |-> is_available(circuit_breaker),
                                          get_status |-> get_status(service, circuit_breaker)]>>]
    /\ UNCHANGED <<service, circuit_breaker, now, streak, online, users, threads>>

NextThreads ==
    \/ Elapse
    \/ GetStatus
    \/ \E t \in Threads :
           \/ Enter(t)
           \/ FuncReturns(t)
           \/ FuncRaises(t)
           \/ ResetCount(t)
           \/ Close(t)
           \/ ReadCount(t)
           \/ WriteCount(t)
           \/ Stamp(t)
           \/ Compare(t)

SpecThreads == InitThreads /\ [][NextThreads]_vars

(***************************************************************************)
(* UserProfileManager.verify_password and the account lock.  The login     *)
(* route reads the user document and passes it on; the clock counts        *)
(* minutes here.                                                           *)
(***************************************************************************)
LockoutAttempts == 5
LockoutMinutes == 30
MaxMinutes == 120
MinuteStep == 15

\* the login fields create_user_profile writes
NewAccount == [failed_login_attempts |-> 0, account_locked_until |-> None]

\* variant: the lock is not looked at
verify_password_lock_ignored(user, correct, t) ==
    IF correct
    THEN [value |-> TRUE, stored |-> NewAccount]
    ELSE [value |-> FALSE,
          stored |-> [failed_login_attempts |-> user.failed_login_attempts + 1,
                      account_locked_until |->
                          IF user.failed_login_attempts + 1 >= LockoutAttempts
                          THEN t + LockoutMinutes ELSE user.account_locked_until]]

\* verify_password(user, password) at time t: what it returns and the
\* document the collection holds afterwards.  user is the document as it was
\* read before the call; the update that lifts an expired lock goes to the
\* collection and leaves user as it is
verify_password(user, correct, t) ==
    IF user.account_locked_until # None /\ t < user.account_locked_until
    THEN [value |-> FALSE, stored |-> user]
    ELSE IF correct
    THEN [value |-> TRUE, stored |-> NewAccount]
    ELSE LET failed_attempts == user.failed_login_attempts + 1
         IN  [value |-> FALSE,
              stored |-> [failed_login_attempts |-> failed_attempts,
                          account_locked_until |->
                              IF failed_attempts >= LockoutAttempts
                              THEN t + LockoutMinutes ELSE None]]

InitLogin ==
    /\ service = "login"
    /\ circuit_breaker = CircuitBreaker(DefaultFailureThreshold, DefaultRecoveryTimeout)
    /\ now = 0
    /\ call = NoCall
    /\ streak = 0
    /\ online = {}
    /\ users = [user_id \in UserIds |-> NewAccount]
    /\ threads = <<>>

\* minutes pass
Later ==
    /\ service = "login"
    /\ now + MinuteStep <= MaxMinutes
    /\ now' = now + MinuteStep
    /\ UNCHANGED <<service, circuit_breaker, call, streak, online, users, threads>>

\* a login: get_user_by_username, then verify_password
VerifyPassword ==
    \E user_id \in UserIds, correct \in BOOLEAN :
    \E done \in {verify_password(users[user_id], correct, now)} :
        /\ service = "login"
        /\ users' = [users EXCEPT ![user_id] = done.stored]
        /\ call' = [op |-> "verify_password",
                    args |-> [user_id |-> user_id, correct |-> correct],
                    requests |-> <<>>, before |-> users, at |-> now,
                    result |-> [raised |-> FALSE, value |-> done.value]]
        /\ UNCHANGED <<service, circuit_breaker, now, streak, online, threads>>

NextLogin == Later \/ VerifyPassword

SpecLogin == InitLogin /\ [][NextLogin]_vars

(***************************************************************************)
(* Properties of the circuit breaker.                                      *)
(***************************************************************************)
\* every pass through circuit_breaker.call made by the last operation
Requests == {call.requests[i] : i \in DOMAIN call.requests}

\* the breaker was open and the recovery timeout had not elapsed when the call came
OpenWithinTimeout(obs) ==
    /\ obs.before.state = OPEN
    /\ obs.before.last_failure_time # None
    /\ obs.at - obs.before.last_failure_time < obs.before.recovery_timeout

\* the breaker was open and the recovery timeout had elapsed when the call came
OpenTimeoutElapsed(obs) ==
    /\ obs.before.state = OPEN
    /\ obs.before.last_failure_time # None
    /\ obs.at - obs.before.last_failure_time >= obs.before.recovery_timeout

\* C1: starting from CLOSED with failure threshold N, once N consecutive calls
\* have failed with no successful call between them, the breaker is OPEN.
C1_OpenAfterThresholdFailures ==
    streak >= circuit_breaker.failure_threshold => circuit_breaker.state = OPEN

\* the call that was the N-th consecutive failure found the breaker CLOSED and left it OPEN
C1_Witness ==
    /\ circuit_breaker.failure_threshold = DefaultFailureThreshold
    /\ streak = circuit_breaker.failure_threshold
    /\ \E obs \in Requests :
         obs.raised /\ ~obs.rejected /\ obs.before.state = CLOSED /\ obs.after.state = OPEN

\* C2: while the breaker is OPEN and less than recovery_timeout has elapsed since
\* the last failure, a call is rejected with the 'unavailable' error, the wrapped
\* function is not invoked, and state, failure_count and last_failure_time stay as they were.
C2_OpenRejectsWithoutInvoking ==
    \A obs \in Requests :
        OpenWithinTimeout(obs) =>
            /\ obs.rejected
            /\ obs.raised /\ obs.exc = Unavailable
            /\ obs.attempts = 0
            /\ obs.after.state = obs.before.state
            /\ obs.after.failure_count = obs.before.failure_count
            /\ obs.after.last_failure_time = obs.before.last_failure_time

\* a call that would have succeeded arrives some time after the breaker opened, within the timeout
C2_Witness ==
    \E obs \in Requests :
        /\ OpenWithinTimeout(obs)
        /\ obs.at > obs.before.last_failure_time
        /\ obs.outs[1] # 0
        /\ obs.rejected

\* C3: a successful call made while the breaker is CLOSED or HALF_OPEN leaves
\* failure_count = 0 and state CLOSED.
C3_SuccessResetsAndCloses ==
    \A obs \in Requests :
        (~obs.raised /\ (obs.before.state = CLOSED \/ obs.probe)) =>
            /\ obs.after.failure_count = 0
            /\ obs.after.state = CLOSED
            /\ circuit_breaker = obs.after

\* the probe of a half-open breaker succeeded, with failures counted before it
C3_Witness ==
    \E obs \in Requests :
        /\ ~obs.raised
        /\ obs.probe
        /\ obs.before.failure_count >= obs.before.failure_threshold
        /\ obs.after.state = CLOSED

\* C4: when the breaker is OPEN and at least recovery_timeout has elapsed since the
\* last failure, the next call moves it to HALF_OPEN and invokes the wrapped function.
C4_ProbeAfterTimeout ==
    \A obs \in Requests :
        OpenTimeoutElapsed(obs) =>
            /\ ~obs.rejected
            /\ obs.probe
            /\ obs.attempts >= 1

\* the call comes exactly recovery_timeout after the last failure
C4_Witness ==
    \E obs \in Requests :
        /\ obs.before.state = OPEN
        /\ obs.at - obs.before.last_failure_time = obs.before.recovery_timeout
        /\ obs.probe
        /\ obs.attempts >= 1

\* C5: when the probe made in HALF_OPEN fails, the breaker is OPEN again at once,
\* last_failure_time is the time of that failure, and calls are rejected until a
\* full recovery_timeout has elapsed from it.
C5_FailedProbeReopens ==
    \A obs \in Requests :
        (obs.probe /\ obs.raised) =>
            /\ obs.after.state = OPEN
            /\ obs.after.last_failure_time = obs.end
            /\ \A t \in obs.end..(obs.end + obs.after.recovery_timeout - 1) :
                 CircuitBreakerCall(obs.after, t, 0, 0, 1000, <<1>>).rejected
            /\ ~CircuitBreakerCall(obs.after, obs.end + obs.after.recovery_timeout,
                                   0, 0, 1000, <<1>>).rejected

\* a probe that took time failed, later than the failure that had opened the breaker
C5_Witness ==
    \E obs \in Requests :
        /\ obs.probe /\ obs.raised
        /\ obs.end > obs.at
        /\ obs.after.state = OPEN
        /\ obs.after.last_failure_time > obs.before.last_failure_time


(***************************************************************************)
(* Properties of the adapters.                                             *)
(***************************************************************************)
PublicSearchMethods ==
    {"find_similar_korean_experiences", "search_places", "search_by_neighborhood",
     "find_nearby_places", "search_places_by_text"}

\* the provider function raised on every attempt it was given
ProviderAlwaysRaises(obs) == \A i \in DOMAIN obs.outs : obs.outs[i] = 0

\* what _make_request hands an adapter of a closed breaker once its retries are exhausted
ExhaustedData(svc) ==
    _make_request(svc, CircuitBreaker(DefaultFailureThreshold, DefaultRecoveryTimeout),
                  1, 0, AllRaise(MaxRetriesOf(svc))).data

\* C6: a function decorated with retry_with_backoff(max_retries = n) is invoked at
\* most n+1 times per call; the value of its first successful attempt is returned
\* and no attempt follows it; when all n+1 attempts raise, the last exception
\* propagates and _make_request's breaker counts exactly one failure.
C6_ExhaustedRetriesAreOneFailure ==
    \A obs \in Requests :
        ~obs.rejected =>
            /\ obs.attempts >= 1
            /\ obs.attempts <= obs.max_retries + 1
            /\ \A i \in 1..(obs.attempts - 1) : obs.outs[i] = 0
            /\ ~obs.raised => obs.outs[obs.attempts] # 0 /\ obs.value = obs.outs[obs.attempts]
            /\ ProviderAlwaysRaises(obs) =>
                   /\ obs.raised
                   /\ obs.attempts = obs.max_retries + 1
                   /\ obs.exc = obs.max_retries + 1
                   /\ obs.after.failure_count = obs.before.failure_count + 1

\* a request of an adapter used up its four attempts on a breaker that had
\* already counted failures
C6_Witness ==
    /\ service \in Adapters
    /\ \E obs \in Requests :
        /\ ~obs.rejected
        /\ ProviderAlwaysRaises(obs)
        /\ obs.max_retries = DefaultMaxRetries
        /\ obs.attempts = DefaultMaxRetries + 1
        /\ obs.before.failure_count > 0
        /\ obs.after.failure_count = obs.before.failure_count + 1

\* C7: when an adapter's breaker is OPEN and the timeout has not elapsed, a request
\* through _make_request invokes the provider function zero times, with no retry
\* and no backoff sleep, and the public search method returns the fallback data it
\* returns after retries are exhausted.
C7_OpenBreakerFallsBackLikeExhaustion ==
    call.op \in PublicSearchMethods =>
        /\ \A obs \in Requests :
               OpenWithinTimeout(obs) =>
                   obs.rejected /\ obs.attempts = 0 /\ obs.sleeps = <<>>
        /\ (\E obs \in Requests : obs.rejected) =>
               call.result =
                   PublicMethod(call.op, call.args,
                                [i \in DOMAIN call.requests |->
                                    IF call.requests[i].raised THEN ExhaustedData(service)
                                    ELSE LiveData(service, call.requests[i].value)])

\* search_places is called while the breaker is open and hands back fallback records
C7_Witness ==
    /\ call.op = "search_places"
    /\ \E obs \in Requests : OpenWithinTimeout(obs) /\ obs.rejected
    /\ call.result.value.items # <<>>

\* C8: for each adapter, when the provider call always raises, each public search
\* method completes without raising and returns a list, never None or another type.
C8_FailingProviderYieldsList ==
    (call.op \in PublicSearchMethods /\ \A obs \in Requests : ProviderAlwaysRaises(obs)) =>
        /\ ~call.result.raised
        /\ call.result.value.type = "list"

\* find_nearby_places used up its retries and handed back a list
C8_Witness ==
    /\ call.op = "find_nearby_places"
    /\ \E obs \in Requests :
           ProviderAlwaysRaises(obs) /\ ~obs.rejected /\ obs.attempts = obs.max_retries + 1
    /\ ~call.result.raised
    /\ call.result.value.type = "list"

\* C9: when the provider call fails, search_places(query, location, place_type)
\* returns the curated fallback set filtered by the caller's query terms and
\* place_type: every returned record has the normalized place_type as category
\* (when one is given) and matches a term of the caller's query.
C9_FallbackFilteredByCaller ==
    (call.op = "search_places" /\ \E obs \in Requests : obs.raised) =>
        \A k \in DOMAIN call.result.value.items :
            LET p == call.result.value.items[k]
            IN  /\ call.args.place_type # "" =>
                       Category(p) = _normalize_place_type(call.args.place_type)
                /\ call.args.query # <<>> =>
                       \E i \in DOMAIN call.args.query : call.args.query[i] \in SearchableText(p)

(***************************************************************************)
(* Properties of the orchestrator.                                         *)
(***************************************************************************)
\* the keys of the dict get_recommendation returns
ResultKeys ==
    {"response", "recommendations", "cultural_context", "neighborhood_insights",
     "authenticity_score", "personalization_applied"}

\* C10: get_recommendation never raises and always returns a result structure,
\* whatever the query, the profile and the location are (empty and null ones
\* included) and whichever of the adapters and the generative provider fail.
C10_AlwaysReturnsResult ==
    call.op = "get_recommendation" =>
        /\ ~call.result.raised
        /\ ResultKeys \subseteq DOMAIN call.result.value
        /\ call.result.value.response.type = "text"

\* get_recommendation was called with an empty query, no profile and no
\* location while every provider failed every request, and returned a result
C10_Witness ==
    /\ call.op = "get_recommendation"
    /\ call.args.user_query = <<>>
    /\ call.args.user_profile = NoProfile
    /\ call.args.location = ""
    /\ online = {}
    /\ Len(call.requests) >= 6
    /\ \A obs \in Requests : obs.raised /\ ~obs.rejected
    /\ ~call.result.raised
    /\ ResultKeys \subseteq DOMAIN call.result.value
    /\ call.result.value.recommendations # <<>>

\* an orchestration step of the try raised: reading the profile is the step
\* that can, on a record of visited_places without a name
StepRaised == _get_personalization_context(call.args.user_profile).raised

NamesOf(recommendations) == [i \in DOMAIN recommendations |-> Name(recommendations[i].id)]

\* C11: when a step inside the try of get_recommendation raises, the result is
\* the fixed set of three recommendations (Gyeongbokgung Palace, Hongdae Street
\* Food, Insadong Traditional Tea House) with the canned response,
\* personalization_applied false and fallback_used true.
C11_RaisedStepGivesFixedFallback ==
    (call.op = "get_recommendation" /\ StepRaised) =>
        /\ ~call.result.raised
        /\ NamesOf(call.result.value.recommendations) =
               <<"Gyeongbokgung Palace", "Hongdae Street Food",
                 "Insadong Traditional Tea House">>
        /\ \A i \in DOMAIN call.result.value.recommendations :
               call.result.value.recommendations[i].source = "fallback"
        /\ call.result.value.response = Text("structured")
        /\ call.result.value.personalization_applied = FALSE
        /\ "fallback_used" \in DOMAIN call.result.value
        /\ call.result.value.fallback_used = TRUE

\* get_recommendation was given a malformed profile after the intent analysis
\* had asked Gemini, and answered with the three fixed recommendations
C11_Witness ==
    /\ call.op = "get_recommendation"
    /\ StepRaised
    /\ Len(call.requests) = 1
    /\ ~call.result.raised
    /\ Len(call.result.value.recommendations) = 3
    /\ call.result.value.fallback_used

\* the sources of the records in a list of recommendations
SourcesOf(recommendations) == {recommendations[i].source : i \in DOMAIN recommendations}

\* the steps of the fan-out that get_recommendation takes from the breakers
\* cbs for the query: the cultural and the place search are asked of an
\* available service, the neighborhood search when the query names one
StepsDue(cbs, user_query) ==
    {step \in FanOutSteps :
        CASE step = "cultural" -> is_available(cbs.cultural)
          [] step = "search"   -> is_available(cbs.search)
          [] OTHER             -> _detect_neighborhood_focus(user_query) # ""}

SourceOfStep(step) ==
    CASE step = "cultural" -> "cultural_discovery"
      [] step = "search"   -> "search_service"
      [] OTHER             -> "neighborhood_search"

\* C12: adapter failures are isolated in the fan-out of get_recommendation:
\* when some of the cultural, place-search and neighborhood-search calls raise,
\* the other steps are still taken and their records are in the result, the
\* raising steps add nothing, and when all of them raise the normal result is
\* returned with an empty recommendation list, not the fallback set.
C12_FanOutFailuresIsolated ==
    [][(call' # call /\ call'.op = "get_recommendation") =>
          /\ ~call'.result.raised
          /\ "fallback_used" \notin DOMAIN call'.result.value
          /\ SourcesOf(call'.result.value.recommendations) =
                 {SourceOfStep(step) :
                      step \in StepsDue(circuit_breaker, call'.args.user_query)
                                   \ call'.args.faults}
          /\ call'.args.faults = FanOutSteps =>
                 /\ call'.result.value.recommendations = <<>>
                 /\ call'.result.value.response.type = "text"]_vars

\* the cultural call raised, and the records of the place search and of the
\* neighborhood search are in the result
C12_Witness ==
    /\ call.op = "get_recommendation"
    /\ call.args.faults = {"cultural"}
    /\ ~call.result.raised
    /\ SourcesOf(call.result.value.recommendations) =
           {"search_service", "neighborhood_search"}
    /\ Len(call.requests) = 3

\* C13: in the recommendations list get_recommendation returns, no two records
\* have the same name, whatever the adapters gave (live or fallback records).
C13_NoTwoRecordsShareName ==
    call.op = "get_recommendation" =>
        \A i, j \in DOMAIN call.result.value.recommendations :
            i # j => Name(call.result.value.recommendations[i].id)
                       # Name(call.result.value.recommendations[j].id)

\* the response of the result was written by the generative provider
ResponseGenerated == call.result.value.response = Text("generated")

\* C14: the result of get_recommendation has fallback_used = true whenever its
\* response was not produced by the generative provider, that is whenever the
\* composer fell back to a template or to the emergency response.
C14_FallbackUsedWhenNotGenerated ==
    (call.op = "get_recommendation" /\ ~call.result.raised /\ ~ResponseGenerated) =>
        /\ "fallback_used" \in DOMAIN call.result.value
        /\ call.result.value.fallback_used = TRUE

\* C15: in generate_response a failure of the generative call (provider
\* unavailable, retries exhausted, empty response) yields the templated
\* response; the emergency response is for a template that cannot be rendered,
\* which does not happen for the queries of the model; no exception propagates.
C15_FailedGenerationYieldsTemplate ==
    (call.op = "get_recommendation" /\ ~StepRaised /\ "gemini" \notin online) =>
        /\ ~call.result.raised
        /\ call.result.value.response = Text("template")

\* C16: with a non-empty user profile, no record the personalization filter of
\* get_recommendation lets through has a name that is in the user's
\* visited_places or in the user's favorite_places.
C16_VisitedAndFavoritesDropped ==
    (call.op = "get_recommendation" /\ ~call.result.raised
        /\ call.result.value.personalization_applied) =>
        \A i \in DOMAIN call.result.value.recommendations :
            Name(call.result.value.recommendations[i].id)
                \notin (call.args.user_profile.visited_places
                           \cup call.args.user_profile.favorite_places)

\* the restriction keywords in the combined text of a record: its name in
\* either casing, its teaser, its description and its tags
CombinedText(p) == rec_text(p) \cup LowercaseName(p)

\* C17: every restaurant-kind record whose combined text (name, teaser,
\* description, tags) holds a forbidden keyword of a food restriction the user
\* declared is absent from the output of the personalization filter, whichever
\* adapter wrote the record and whichever casing its field names have.
C17_RestrictedRestaurantsDropped ==
    call.op = "_apply_personalization_filtering" =>
        \A i \in DOMAIN call.result.value.items :
            LET p == call.result.value.items[i].id
            IN  Category(p) = "restaurant" =>
                    \A restriction \in call.args.context.food_restrictions :
                        restriction_keywords(restriction) \cap CombinedText(p) = {}

\* C18: on every return path of get_recommendation the result's
\* authenticity_score is the arithmetic mean of the authenticity_score of the
\* records in its recommendations list, 0.0 for an empty list, and in [0, 1].
\* (Record scores are in hundredths, the result's score in ten-thousandths.)
C18_ScoreIsMeanOfRecords ==
    (call.op = "get_recommendation" /\ ~call.result.raised) =>
        LET recommendations == call.result.value.recommendations
        IN  /\ call.result.value.authenticity_score \in 0..10000
            /\ recommendations = <<>> => call.result.value.authenticity_score = 0
            /\ recommendations # <<>> =>
                   call.result.value.authenticity_score =
                       (100 * TotalScore(recommendations, Len(recommendations)))
                           \div Len(recommendations)

\* C19: every record in the output of get_recommendation (the records the
\* adapters handed over, live or fallback) has cultural_relevance and
\* authenticity_score within [0.0, 1.0], that is within 0..100 hundredths.
C19_ScoresWithinUnitInterval ==
    (call.op = "get_recommendation" /\ ~call.result.raised) =>
        \A i \in DOMAIN call.result.value.recommendations :
            /\ call.result.value.recommendations[i].authenticity_score \in 0..100
            /\ RelevanceOf(call.result.value.recommendations[i].id) \in 0..100

\* the weights stored for the user of the last call, and those stored before it
WeightsAfter == users[call.args.user_id]
WeightsBefore == call.before[call.args.user_id]

\* the last call was update_user_history or add_favorite for a stored user
\* with a category that maps to one of the five weights
RatedMappedCategory ==
    /\ call.op \in {"update_user_history", "add_favorite"}
    /\ call.args.user_id \in DOMAIN call.before
    /\ category_mapping(call.args.category) # ""

\* the category's weight moved by (rating - 3) tenths and was then bounded; the others stayed
MovedByRating ==
    LET weight_key == category_mapping(call.args.category)
        moved == WeightsBefore[weight_key] + (call.args.rating - 3)
    IN  /\ WeightsAfter[weight_key] =
               IF moved > MaxWeight THEN MaxWeight ELSE IF moved < MinWeight THEN MinWeight ELSE moved
        /\ \A key \in weight_keys \ {weight_key} : WeightsAfter[key] = WeightsBefore[key]

\* C20 (as amended): the weights of a user start at 1.0 for the five
\* categories; after any sequence of update_user_history and add_favorite
\* calls with any ratings every stored weight is within [0.1, 2.0]; a rating
\* other than 0, given for a category that maps to a weight, moves that
\* weight by (rating - 3) * 0.1 before clamping, up above 3 and down below 3;
\* an absent rating or a rating of 0 leaves the weights as they were.
C20_WeightsStartAtOneAndStayBounded ==
    /\ \A user_id \in DOMAIN users :
           /\ DOMAIN users[user_id] = weight_keys
           /\ \A key \in weight_keys : users[user_id][key] \in MinWeight..MaxWeight
    /\ call.op = "create_user_profile" =>
           \A key \in weight_keys : WeightsAfter[key] = DefaultWeight
    /\ (RatedMappedCategory /\ call.args.rating \notin {None, 0}) => MovedByRating
    /\ (RatedMappedCategory /\ call.args.rating \in {None, 0}) => WeightsAfter = WeightsBefore

\* a rating far above the scale met a weight near the top and the weight stopped at 2.0
C20_Witness ==
    /\ RatedMappedCategory
    /\ call.op = "update_user_history"
    /\ call.args.rating = OffScale
    /\ WeightsBefore["food"] = MaxWeight - 1
    /\ WeightsAfter["food"] = MaxWeight
    /\ WeightsAfter["culture"] = MaxWeight

\* C20 (as stated): every rating below 3, 0 included, lowers the category's
\* weight by (rating - 3) * 0.1 before clamping.
C20_EveryRatingBelowThreeLowers ==
    (RatedMappedCategory /\ call.args.rating # None /\ call.args.rating < 3) => MovedByRating

\* C26: a breaker used by one caller at a time (threshold >= 1) is OPEN or
\* HALF_OPEN only with failure_count >= failure_threshold and
\* last_failure_time set, and CLOSED only with failure_count < failure_threshold.
\* The breaker is HALF_OPEN while a probe runs, with the fields it had before.
C26_StateAgreesWithCount ==
    /\ circuit_breaker.failure_threshold >= 1
    /\ circuit_breaker.state = OPEN =>
           /\ circuit_breaker.failure_count >= circuit_breaker.failure_threshold
           /\ circuit_breaker.last_failure_time # None
    /\ circuit_breaker.state = CLOSED =>
           circuit_breaker.failure_count < circuit_breaker.failure_threshold
    /\ circuit_breaker.state # HALF_OPEN
    /\ \A obs \in Requests :
           obs.probe =>
               /\ obs.before.failure_count >= obs.before.failure_threshold
               /\ obs.before.last_failure_time # None

\* a probe ran and failed: the breaker was HALF_OPEN and is OPEN again
C26_Witness ==
    /\ call.op = "call"
    /\ \E obs \in Requests : obs.probe /\ obs.raised
    /\ circuit_breaker.state = OPEN
    /\ circuit_breaker.failure_count > circuit_breaker.failure_threshold

\* no thread is inside CircuitBreaker.call
AllIdle == \A t \in Threads : threads[t].at = "idle"

\* C21: with several threads on one breaker, after k failing calls and no
\* success failure_count has increased by exactly k, and the breaker is OPEN
\* once k has reached failure_threshold.
C21_ConcurrentFailuresAllCounted ==
    (service = "shared" /\ AllIdle /\ call.returned = 0) =>
        /\ circuit_breaker.failure_count = streak
        /\ streak >= circuit_breaker.failure_threshold => circuit_breaker.state = OPEN

\* C28: with concurrent calls on one breaker, an OPEN breaker stays OPEN and
\* keeps its failure_count while recovery_timeout has not elapsed since the
\* last failure, whatever calls that entered earlier return.
C28_OpenStaysOpenUntilTimeout ==
    [][(/\ service = "shared"
        /\ circuit_breaker.state = OPEN
        /\ ~_should_attempt_reset(circuit_breaker, now'))
       => (/\ circuit_breaker'.state = OPEN
           /\ circuit_breaker'.failure_count >= circuit_breaker.failure_count)]_vars

\* the status reads made so far
StatusReads == {call.status[i] : i \in DOMAIN call.status}

\* C22: for every breaker state is_available() is true exactly when the state
\* is not OPEN, and get_status() reports the current state, the current
\* failure_count and available equal to is_available().
C22_StatusReportsBreaker ==
    service = "shared" =>
        \A read \in StatusReads :
            /\ read.is_available = (read.of.state # OPEN)
            /\ read.get_status.state = read.of.state
            /\ read.get_status.failure_count = read.of.failure_count
            /\ read.get_status.available = read.is_available

\* the status was read while a probe ran: HALF_OPEN counts as available
C22_Witness ==
    /\ service = "shared"
    /\ \E read \in StatusReads :
           /\ read.of.state = HALF_OPEN
           /\ read.get_status.available
           /\ read.get_status.failure_count >= SharedThreshold

\* get_recommendation wrote its response with every generative call failing
CompositionFailed ==
    /\ call.op = "get_recommendation"
    /\ ~call.result.raised
    /\ call.result.value.response = Text("emergency")

\* C24: the generative call of the response composition goes through the
\* circuit breaker: a composition whose generative call fails increases the
\* failure_count of the generative provider's breaker (beyond what the
\* intent analysis before it left).
C24_FailedCompositionCounts ==
    CompositionFailed =>
        circuit_breaker.gemini.failure_count > call.requests[1].after.failure_count

\* C25: during one generate_response in which every generative call fails
\* the model is called at most max_retries + 1 = 4 times.
C25_ModelCalledAtMostFourTimes ==
    CompositionFailed => call.model_calls <= DefaultMaxRetries + 1

\* C27: when the breaker of the cultural or of the search adapter is OPEN and
\* its recovery_timeout has elapsed, a get_recommendation call that gets to
\* the fan-out invokes the adapter, so that the probe runs: the breaker is
\* CLOSED afterwards or has counted the failure of the probe.  This holds
\* for every query, with or without a neighborhood focus.
C27_OpenBreakerIsProbed ==
    [][\A adapter \in {"cultural", "search"} :
           (/\ service = "guide"
            /\ circuit_breaker[adapter].state = OPEN
            /\ _should_attempt_reset(circuit_breaker[adapter], now)
            /\ call' # call
            /\ call'.op = "get_recommendation"
            /\ ~_get_personalization_context(call'.args.user_profile).raised)
           => \/ circuit_breaker'[adapter].state = CLOSED
              \/ circuit_breaker'[adapter].failure_count >
                     circuit_breaker[adapter].failure_count]_vars

\* C29: search_by_neighborhood(n, place_type) returns only records located
\* in neighborhood n, each carrying neighborhood = n, when the provider
\* answers and when the provider call fails and fallback data is used.
C29_NeighborhoodSearchStaysInNeighborhood ==
    (call.op = "search_by_neighborhood" /\ ~call.result.raised) =>
        \A i \in DOMAIN call.result.value.items :
            NeighborhoodOf(call.result.value.items[i]) = call.args.neighborhood

\* the document of the user of the last verify_password, before and after it
AccountBefore == call.before[call.args.user_id]
AccountAfter == users[call.args.user_id]

\* account_locked_until was in the future when verify_password was called
LockedAtCall ==
    /\ AccountBefore.account_locked_until # None
    /\ call.at < AccountBefore.account_locked_until

\* C23: in verify_password a wrong password stores failed_login_attempts
\* increased by one and, when the new count reaches 5, sets
\* account_locked_until 30 minutes ahead; while account_locked_until is in
\* the future verify_password returns False even for the correct password
\* and writes nothing.
C23_WrongPasswordCountsAndLocks ==
    call.op = "verify_password" =>
        /\ (~LockedAtCall /\ ~call.args.correct) =>
               /\ ~call.result.value
               /\ AccountAfter.failed_login_attempts =
                      AccountBefore.failed_login_attempts + 1
               /\ AccountAfter.failed_login_attempts >= LockoutAttempts =>
                      AccountAfter.account_locked_until = call.at + LockoutMinutes
        /\ LockedAtCall => (~call.result.value /\ AccountAfter = AccountBefore)

\* the correct password was given to a locked account, and refused
C23_Witness ==
    /\ call.op = "verify_password"
    /\ LockedAtCall
    /\ call.args.correct
    /\ ~call.result.value
    /\ AccountAfter.failed_login_attempts = LockoutAttempts
    /\ AccountAfter.account_locked_until = LockoutMinutes

\* C30: after an account lock has expired the count restarts from 0: the
\* first wrong password after the expiry stores failed_login_attempts = 1
\* and does not set account_locked_until again.
C30_CountRestartsAfterExpiry ==
    (/\ call.op = "verify_password"
     /\ AccountBefore.account_locked_until # None
     /\ ~LockedAtCall
     /\ ~call.args.correct) =>
        /\ AccountAfter.failed_login_attempts = 1
        /\ AccountAfter.account_locked_until = None

====
